---- MODULE Spec2Model ----
(***************************************************************************)
(* Model of src/src/todo.py: the TodoApp task store (load, save, add,      *)
(* list, complete, delete) over a JSON backing file, used by one store     *)
(* object or by several processes that share the file.                     *)
(***************************************************************************)
EXTENDS Integers, Sequences, FiniteSets, TLC

\* ---------------------------------------------------------------- bounds
MaxTasks == 3        \* longest in-memory sequence explored (one store)
MaxId == 3           \* largest id an add may assign (one store)
ConcMaxTasks == 2    \* longest in-memory sequence explored (shared file)
ConcMaxId == 2       \* largest id an add may assign (shared file)
MaxFileLen == 2      \* longest task array found in a pre-existing file

Procs == {1, 2}      \* store objects / processes sharing the backing file
Solo == {1}          \* the single store object of the sequential runs

\* inputs of add: title, description, and the clock reading datetime.now()
AddInputs == { [title |-> "a", description |-> "d", now |-> "t0"] }

\* ------------------------------------------------------- task dictionaries
\* A task is a Python dict: a function from a set of keys to values.
Keys == <<"id", "title", "description", "completed", "created_at">>

\* dict.get(k, default)
Get(t, k, default) == IF k \in DOMAIN t THEN t[k] ELSE default

\* t[k] = v on a dict (adds the key when it is missing)
SetKey(t, k, v) == [x \in (DOMAIN t) \cup {k} |-> IF x = k THEN v ELSE t[x]]

NewTask(next_id, title, description, now) ==
  [id |-> next_id, title |-> title, description |-> description,
   completed |-> FALSE, created_at |-> now]

Ids(ts) == {ts[i]["id"] : i \in DOMAIN ts}

SetMax(S) == CHOOSE m \in S : \A x \in S : x <= m

\* ------------------------------------------------------------ JSON text
Digits == <<"0", "1", "2", "3", "4", "5", "6", "7", "8", "9">>

RECURSIVE IntToStr(_)
IntToStr(n) ==
  IF n < 0 THEN <<"-">> \o IntToStr(0 - n)
  ELSE IF n < 10 THEN <<Digits[n + 1]>>
  ELSE IntToStr(n \div 10) \o <<Digits[(n % 10) + 1]>>

DigitVal(c) == CHOOSE d \in 0..9 : Digits[d + 1] = c

RECURSIVE StrToInt(_)
StrToInt(s) ==
  IF s[1] = "-" THEN 0 - StrToInt(Tail(s))
  ELSE IF Len(s) = 1 THEN DigitVal(s[1])
  ELSE 10 * StrToInt(SubSeq(s, 1, Len(s) - 1)) + DigitVal(s[Len(s)])

\* faulty variant: booleans written with Python's spelling
EncodeValuePy(k, v) ==
  CASE k = "id" -> [type |-> "num", text |-> IntToStr(v)]
    [] k = "completed" ->
         [type |-> "bool", text |-> IF v THEN <<"True">> ELSE <<"False">>]
    [] OTHER -> [type |-> "str", text |-> <<"\"", v, "\"">>]

\* json.dump of one value; the JSON type follows the Python type of the field
EncodeValue(k, v) ==
  CASE k = "id" -> [type |-> "num", text |-> IntToStr(v)]
    [] k = "completed" ->
         [type |-> "bool", text |-> IF v THEN <<"true">> ELSE <<"false">>]
    [] OTHER -> [type |-> "str", text |-> <<"\"", v, "\"">>]

\* json.load of one value
DecodeValue(e) ==
  CASE e.type = "num" -> StrToInt(e.text)
    [] e.type = "bool" -> (e.text = <<"true">>)
    [] OTHER -> e.text[2]

\* a dict is written as its members, in key order
EncodeTask(t) ==
  LET ks == SelectSeq(Keys, LAMBDA k : k \in DOMAIN t)
  IN  [i \in 1..Len(ks) |-> [key |-> ks[i], val |-> EncodeValue(ks[i], t[ks[i]])]]

DecodeTask(members) ==
  LET ks == {members[i].key : i \in DOMAIN members}
      LastOf(k) == SetMax({i \in DOMAIN members : members[i].key = k})
  IN  [k \in ks |-> DecodeValue(members[LastOf(k)].val)]

LBracket == [tok |-> "[", members |-> <<>>]
RBracket == [tok |-> "]", members |-> <<>>]

\* a byte sequence that is not valid UTF-8 (only in files written by others:
\* json.dump writes ASCII)
BadByte == [tok |-> "badbyte", members |-> <<>>]

\* f.read() in text mode can decode the file
Decodable(text) == \A i \in DOMAIN text : text[i].tok # "badbyte"

\* json.dump(self.tasks, f, indent=2): the text of the whole array
JsonDump(ts) ==
  <<LBracket>>
    \o [i \in 1..Len(ts) |-> [tok |-> "obj", members |-> EncodeTask(ts[i])]]
    \o <<RBracket>>

\* does the text parse as a JSON array of objects
JsonValid(text) ==
  /\ Len(text) >= 2
  /\ text[1].tok = "["
  /\ text[Len(text)].tok = "]"
  /\ \A i \in 2..(Len(text) - 1) : text[i].tok = "obj"

\* json.load(f) on a text that parses
JsonLoad(text) == [i \in 1..(Len(text) - 2) |-> DecodeTask(text[i + 1].members)]

\* --------------------------------------------------------- backing file
NoFile == [exists |-> FALSE, text |-> <<>>]
FileOf(text) == [exists |-> TRUE, text |-> text]

\* outcomes of opening and reading the file in _load_tasks
ReadOutcomes == {"ok", "io_error"}
\* outcomes of opening and writing the file in _save_tasks
IoOutcomes == {"ok", "open_fail", "write_fail"}

VARIABLES
  tasks_file,    \* the backing file at self.tasks_file: exists, text
  tasks,         \* tasks[p]: self.tasks of store p
  pc,            \* pc[p]: "none" (not constructed), "ready", "exited"
  load_status,   \* load_status[p]: branch _load_tasks took for store p
  stdout,        \* stdout[p]: lines printed by the latest call of p
  stderr,        \* stderr[p]: diagnostics printed by the latest call of p
  exit_status,   \* exit_status[p]: -1 while the process runs, else its status
  last,          \* the latest call: operation, store, id, flag, save outcome;
                 \* flag: list: show_completed; complete, delete: the id was
                 \* found; add: the id had been removed by an earlier delete
  deleted,       \* history: ids removed by a saved delete and not assigned
                 \* again since
  lastSaver,     \* history: live store whose save wrote the current file, or 0
  stale          \* history: stale[p] iff the file was written by another
                 \* store after p loaded it

vars == <<tasks_file, tasks, pc, load_status, stdout, stderr, exit_status,
          last, deleted, lastSaver, stale>>

Line(kind, mark, id, text) ==
  [kind |-> kind, mark |-> mark, id |-> id, text |-> text]

Call(op, p, id, flag, io) ==
  [op |-> op, p |-> p, id |-> id, flag |-> flag, io |-> io]

\* ------------------------------------------------------------ _load_tasks
\* status "unicode_error": f.read() raises UnicodeDecodeError, which the
\* except clause (json.JSONDecodeError, IOError) does not catch
LoadTasks(f, rd) ==
  IF f.exists
    THEN IF rd = "ok"
           THEN IF ~Decodable(f.text)
                  THEN [tasks |-> <<>>, status |-> "unicode_error"]
                  ELSE IF JsonValid(f.text)
                         THEN [tasks |-> JsonLoad(f.text), status |-> "ok"]
                         ELSE [tasks |-> <<>>, status |-> "parse_error"]
           ELSE [tasks |-> <<>>, status |-> "io_error"]
    ELSE [tasks |-> <<>>, status |-> "missing"]

LoadDiag(status) ==
  IF status \in {"parse_error", "io_error"}
    THEN <<Line("load_error", "", 0, status)>>
    ELSE IF status = "unicode_error"
           THEN <<Line("traceback", "", 0, status)>>
           ELSE <<>>

\* TodoApp(tasks_file): a new store object (a new process) loads the file;
\* an exception that escapes _load_tasks ends the process with a traceback
TodoAppInit(p, rd) ==
  LET loaded == LoadTasks(tasks_file, rd)
      raised == loaded.status = "unicode_error"
  IN  /\ tasks' = [tasks EXCEPT ![p] = loaded.tasks]
      /\ load_status' = [load_status EXCEPT ![p] = loaded.status]
      /\ pc' = [pc EXCEPT ![p] = IF raised THEN "exited" ELSE "ready"]
      /\ stdout' = [stdout EXCEPT ![p] = <<>>]
      /\ stderr' = [stderr EXCEPT ![p] = LoadDiag(loaded.status)]
      /\ exit_status' = [exit_status EXCEPT ![p] = IF raised THEN 1 ELSE -1]
      /\ stale' = [stale EXCEPT ![p] = FALSE]
      /\ lastSaver' = IF lastSaver = p THEN 0 ELSE lastSaver
      /\ last' = Call("init", p, 0, FALSE, rd)
      /\ UNCHANGED <<tasks_file, deleted>>

\* ------------------------------------------------------------ _save_tasks
\* faulty variant: the file is opened for appending
SaveTextAppend(ts) == tasks_file.text \o JsonDump(ts)

\* faulty variant: the tasks found in the file are kept and the tasks of
\* the store that are not in the file are added after them
SaveTextMerge(ts) ==
  LET old == IF tasks_file.exists /\ JsonValid(tasks_file.text)
               THEN JsonLoad(tasks_file.text) ELSE <<>>
      fresh == SelectSeq(ts, LAMBDA t : \A i \in DOMAIN old : old[i] # t)
  IN  JsonDump(old \o fresh)

\* the text json.dump writes for the sequence ts
SaveText(ts) == JsonDump(ts)

OthersStale(p) ==
  [q \in Procs |-> IF q # p /\ pc[q] = "ready" THEN TRUE ELSE stale[q]]

\* _save_tasks of store p holding ts, then the caller's success message msg.
\* io = "ok": the file is replaced; "open_fail": open() raises and the file
\* is untouched; "write_fail": the file was truncated and a write raises,
\* leaving a proper prefix of the text.  Both failures print the diagnostic
\* and sys.exit(1).
SaveTasks(p, ts, io, msg) ==
  LET text == SaveText(ts)
  IN  \/ /\ io = "ok"
         /\ tasks_file' = FileOf(text)
         /\ stdout' = [stdout EXCEPT ![p] = <<msg>>]
         /\ stderr' = [stderr EXCEPT ![p] = <<>>]
         /\ lastSaver' = p
         /\ stale' = OthersStale(p)
         /\ UNCHANGED <<pc, exit_status>>
      \/ /\ io = "open_fail"
         /\ stdout' = [stdout EXCEPT ![p] = <<>>]
         /\ stderr' = [stderr EXCEPT ![p] = <<Line("save_error", "", 0, io)>>]
         /\ pc' = [pc EXCEPT ![p] = "exited"]
         /\ exit_status' = [exit_status EXCEPT ![p] = 1]
         /\ UNCHANGED <<tasks_file, lastSaver, stale>>
      \/ /\ io = "write_fail"
         /\ \E n \in 0..(Len(text) - 1) : tasks_file' = FileOf(SubSeq(text, 1, n))
         /\ stdout' = [stdout EXCEPT ![p] = <<>>]
         /\ stderr' = [stderr EXCEPT ![p] = <<Line("save_error", "", 0, io)>>]
         /\ pc' = [pc EXCEPT ![p] = "exited"]
         /\ exit_status' = [exit_status EXCEPT ![p] = 1]
         /\ lastSaver' = 0
         /\ stale' = OthersStale(p)

\* --------------------------------------------------------------- add_task
\* faulty variants of the id computation
NextIdLen(ts) == Len(ts) + 1
NextIdFirstFree(ts) == CHOOSE n \in 1..(Len(ts) + 1) :
                         /\ n \notin Ids(ts)
                         /\ \A m \in 1..(n - 1) : m \in Ids(ts)
NextIdCounter(ts) == (IF Ids(ts) \cup deleted = {} THEN 0
                      ELSE SetMax(Ids(ts) \cup deleted)) + 1

\* max((t["id"] for t in self.tasks), default=0) + 1
NextId(ts) == (IF ts = <<>> THEN 0 ELSE SetMax(Ids(ts))) + 1

AddTask(p, title, description, now, io) ==
  LET next_id == NextId(tasks[p])
      task == NewTask(next_id, title, description, now)
      ts == Append(tasks[p], task)
  IN  /\ pc[p] = "ready"
      /\ tasks' = [tasks EXCEPT ![p] = ts]
      /\ SaveTasks(p, ts, io, Line("added", "", 0, title))
      /\ last' = Call("add", p, next_id, next_id \in deleted, io)
      /\ deleted' = IF io = "ok" THEN deleted \ {next_id} ELSE deleted
      /\ UNCHANGED load_status

\* ------------------------------------------------------------- list_tasks
\* faulty variant: a task without the flag is taken as completed
TasksToShowStrict(ts, show_completed) ==
  IF show_completed
    THEN ts
    ELSE SelectSeq(ts, LAMBDA t : ~Get(t, "completed", TRUE))

\* [t for t in self.tasks if not t.get("completed", False)], or all of them
TasksToShow(ts, show_completed) ==
  IF show_completed
    THEN ts
    ELSE SelectSeq(ts, LAMBDA t : ~Get(t, "completed", FALSE))

RenderTask(t) ==
  <<Line("task", IF Get(t, "completed", FALSE) THEN "done" ELSE "open",
         t["id"], t["title"])>>
    \o (IF Get(t, "description", "") # ""
          THEN <<Line("desc", "", 0, t["description"])>>
          ELSE <<>>)

RECURSIVE RenderAll(_)
RenderAll(ts) ==
  IF ts = <<>> THEN <<>> ELSE RenderTask(Head(ts)) \o RenderAll(Tail(ts))

\* faulty variant: no early return for the empty store
ListOutputNoEarly(ts, show_completed) ==
  LET tasks_to_show == TasksToShow(ts, show_completed)
  IN  IF tasks_to_show = <<>>
        THEN <<Line("no_incomplete", "", 0, "")>>
        ELSE <<Line("header", "", 0, ""), Line("rule", "", 0, "")>>
               \o RenderAll(tasks_to_show)
               \o <<Line("rule", "", 0, "")>>

ListOutput(ts, show_completed) ==
  IF ts = <<>>
    THEN <<Line("no_tasks", "", 0, "")>>
    ELSE LET tasks_to_show == TasksToShow(ts, show_completed)
         IN  IF tasks_to_show = <<>>
               THEN <<Line("no_incomplete", "", 0, "")>>
               ELSE <<Line("header", "", 0, ""), Line("rule", "", 0, "")>>
                      \o RenderAll(tasks_to_show)
                      \o <<Line("rule", "", 0, "")>>

\* faulty variant: list also writes the file
ListTasksSaving(p, show_completed) ==
  /\ pc[p] = "ready"
  /\ stdout' = [stdout EXCEPT ![p] = ListOutput(tasks[p], show_completed)]
  /\ stderr' = [stderr EXCEPT ![p] = <<>>]
  /\ last' = Call("list", p, 0, show_completed, "none")
  /\ tasks_file' = FileOf(JsonDump(tasks[p]))
  /\ UNCHANGED <<tasks, pc, load_status, exit_status, deleted, lastSaver,
                 stale>>

ListTasks(p, show_completed) ==
  /\ pc[p] = "ready"
  /\ stdout' = [stdout EXCEPT ![p] = ListOutput(tasks[p], show_completed)]
  /\ stderr' = [stderr EXCEPT ![p] = <<>>]
  /\ last' = Call("list", p, 0, show_completed, "none")
  /\ UNCHANGED <<tasks_file, tasks, pc, load_status, exit_status, deleted,
                 lastSaver, stale>>

\* ---------------------------------------------------------- complete_task
\* faulty variant: the id is taken as a position in the sequence
FirstMatchByIndex(ts, task_id) == IF task_id \in DOMAIN ts THEN task_id ELSE 0

\* index of the first task the scan matches, 0 when the scan finds none
FirstMatch(ts, task_id) ==
  LET hits == {i \in DOMAIN ts : ts[i]["id"] = task_id}
  IN  IF hits = {} THEN 0 ELSE CHOOSE i \in hits : \A j \in hits : i <= j

\* faulty variant: the flag is flipped
MarkCompletedToggle(t) == SetKey(t, "completed", ~Get(t, "completed", FALSE))

\* faulty variant: completing also stamps the task with a new time
MarkCompletedTouch(t) ==
  SetKey(SetKey(t, "completed", TRUE), "created_at", "t9")

\* task["completed"] = True
MarkCompleted(t) == SetKey(t, "completed", TRUE)

CompleteTask(p, task_id, io) ==
  LET i == FirstMatch(tasks[p], task_id)
  IN  /\ pc[p] = "ready"
      /\ IF i # 0
           THEN LET ts == [tasks[p] EXCEPT ![i] = MarkCompleted(@)]
                IN  /\ tasks' = [tasks EXCEPT ![p] = ts]
                    /\ SaveTasks(p, ts, io, Line("completed", "", task_id, ""))
                    /\ last' = Call("complete", p, task_id, TRUE, io)
           ELSE /\ stdout' = [stdout EXCEPT ![p] =
                                <<Line("not_found", "", task_id, "")>>]
                /\ stderr' = [stderr EXCEPT ![p] = <<>>]
                /\ last' = Call("complete", p, task_id, FALSE, "none")
                /\ UNCHANGED <<tasks, tasks_file, pc, exit_status, lastSaver,
                               stale>>
      /\ UNCHANGED <<load_status, deleted>>

\* ------------------------------------------------------------ delete_task
\* faulty variant: only the first matching task is removed
DeleteFilterFirst(ts, task_id) ==
  LET hits == {i \in DOMAIN ts : ts[i]["id"] = task_id}
      first == CHOOSE i \in hits : \A j \in hits : i <= j
  IN  IF hits = {} THEN ts
      ELSE SubSeq(ts, 1, first - 1) \o SubSeq(ts, first + 1, Len(ts))

\* [t for t in self.tasks if t["id"] != task_id]
DeleteFilter(ts, task_id) == SelectSeq(ts, LAMBDA t : t["id"] # task_id)

\* faulty variant: <= for <
DeleteFoundLe(ts, kept) == Len(kept) <= Len(ts)

\* len(self.tasks) < original_length
DeleteFound(ts, kept) == Len(kept) < Len(ts)

DeleteTask(p, task_id, io) ==
  LET kept == DeleteFilter(tasks[p], task_id)
  IN  /\ pc[p] = "ready"
      /\ tasks' = [tasks EXCEPT ![p] = kept]
      /\ IF DeleteFound(tasks[p], kept)
           THEN /\ SaveTasks(p, kept, io, Line("deleted", "", task_id, ""))
                /\ last' = Call("delete", p, task_id, TRUE, io)
                /\ deleted' = IF io = "ok" THEN deleted \cup {task_id}
                                           ELSE deleted
           ELSE /\ stdout' = [stdout EXCEPT ![p] =
                                <<Line("not_found", "", task_id, "")>>]
                /\ stderr' = [stderr EXCEPT ![p] = <<>>]
                /\ last' = Call("delete", p, task_id, FALSE, "none")
                /\ UNCHANGED <<tasks_file, pc, exit_status, lastSaver, stale,
                               deleted>>
      /\ UNCHANGED load_status

\* ------------------------------------------------------------------- main
\* main() returns after its one command: the process ends with status 0
Exit(p) ==
  /\ pc[p] = "ready"
  /\ pc' = [pc EXCEPT ![p] = "exited"]
  /\ exit_status' = [exit_status EXCEPT ![p] = 0]
  /\ last' = Call("exit", p, 0, FALSE, "none")
  /\ UNCHANGED <<tasks_file, tasks, load_status, stdout, stderr, deleted,
                 lastSaver, stale>>

\* ---------------------------------------------------------- specifications
InitStores ==
  /\ tasks = [p \in Procs |-> <<>>]
  /\ pc = [p \in Procs |-> "none"]
  /\ load_status = [p \in Procs |-> "none"]
  /\ stdout = [p \in Procs |-> <<>>]
  /\ stderr = [p \in Procs |-> <<>>]
  /\ exit_status = [p \in Procs |-> -1]
  /\ last = Call("none", 0, 0, FALSE, "none")
  /\ deleted = {}
  /\ lastSaver = 0
  /\ stale = [p \in Procs |-> FALSE]

\* no backing file yet: the store starts empty
Init == tasks_file = NoFile /\ InitStores

\* ids a caller may pass to complete and delete
ArgIds(maxId) == (-1)..maxId

TodoAppInitStep(P, Reads) == \E p \in P, rd \in Reads : TodoAppInit(p, rd)

AddTaskStep(P, Inputs, maxTasks, maxId, Ios) ==
  \E p \in P, inp \in Inputs, io \in Ios :
    /\ Len(tasks[p]) < maxTasks
    /\ NextId(tasks[p]) <= maxId
    /\ AddTask(p, inp.title, inp.description, inp.now, io)

ListTasksStep(P) == \E p \in P, show_completed \in BOOLEAN : ListTasks(p, show_completed)

CompleteTaskStep(P, Args, Ios) ==
  \E p \in P, task_id \in Args, io \in Ios : CompleteTask(p, task_id, io)

DeleteTaskStep(P, Args, Ios) ==
  \E p \in P, task_id \in Args, io \in Ios : DeleteTask(p, task_id, io)

ExitStep(P) == \E p \in P : Exit(p)

\* one store object at a time on the file
Next ==
  \/ TodoAppInitStep(Solo, ReadOutcomes)
  \/ AddTaskStep(Solo, AddInputs, MaxTasks, MaxId, IoOutcomes)
  \/ ListTasksStep(Solo)
  \/ CompleteTaskStep(Solo, ArgIds(MaxId), IoOutcomes)
  \/ DeleteTaskStep(Solo, ArgIds(MaxId), IoOutcomes)
  \/ ExitStep(Solo)

Spec == Init /\ [][Next]_vars

\* several processes, each with its own store object, on one file; reads
\* and writes succeed, and each process adds tasks under its own title
ConcInputs(p) ==
  IF p = 1 THEN AddInputs
           ELSE { [title |-> "b", description |-> "", now |-> "t1"] }

\* ids the processes pass to complete and to delete
ConcCompleteIds == {1}
ConcDeleteIds == {1, 2}

NextConc ==
  \/ TodoAppInitStep(Procs, {"ok"})
  \/ \E p \in Procs : AddTaskStep({p}, ConcInputs(p), ConcMaxTasks, ConcMaxId, {"ok"})
  \/ CompleteTaskStep(Procs, ConcCompleteIds, {"ok"})
  \/ DeleteTaskStep(Procs, ConcDeleteIds, {"ok"})

SpecConc == Init /\ [][NextConc]_vars

\* a file left by earlier runs or other tools: tasks may repeat an id and
\* may lack the completed flag; the file may also be empty or cut short
FileTasks ==
  { NewTask(2, "b", "", "t1"),
    SetKey(NewTask(1, "b", "", "t1"), "completed", TRUE) }
    \cup { [id |-> i, title |-> "b", description |-> "", created_at |-> "t1"] :
             i \in 1..2 }

RECURSIVE SeqsUpTo(_, _)
SeqsUpTo(S, n) ==
  IF n = 0 THEN {<<>>}
  ELSE LET shorter == SeqsUpTo(S, n - 1)
       IN  shorter \cup {Append(q, x) : q \in shorter, x \in S}

InitFiles ==
  {NoFile, FileOf(<<>>), FileOf(<<LBracket>>), FileOf(<<BadByte>>)}
    \cup {FileOf(JsonDump(ts)) : ts \in SeqsUpTo(FileTasks, MaxFileLen)}

InitFile == tasks_file \in InitFiles /\ InitStores

SpecFile == InitFile /\ [][Next]_vars

\* ------------------------------------------------------------------ claims
DistinctIds(ts) ==
  \A i, j \in DOMAIN ts : i # j => ts[i]["id"] # ts[j]["id"]

\* C1: starting from an empty store, after any sequence of add, complete,
\* delete, list and reload, the ids in the in-memory sequence are pairwise
\* distinct.
C1_IdsDistinct == \A p \in Procs : DistinctIds(tasks[p])

\* an add after a saved delete, with at least two tasks in the store
C1_Witness ==
  /\ last.op = "add"
  /\ deleted # {}
  /\ Len(tasks[last.p]) >= 2

\* C2 as stated: no add returns an id that an earlier delete removed.
C2_NeverReused == last.op = "add" => ~last.flag

\* C2, amended: an add returns an id greater than every id in the store, so
\* an id removed by delete is not returned while the store holds an equal or
\* larger id (it can come back once every present id is smaller).
C2_NoReuseBelowMax ==
  last.op = "add" =>
    LET ts == tasks[last.p]
    IN  /\ last.flag => \A i \in 1..(Len(ts) - 1) : ts[i]["id"] < last.id
        /\ \A d \in deleted :
             (\E i \in 1..(Len(ts) - 1) : ts[i]["id"] >= d) => last.id # d

\* an add made while a deleted id lies below the ids in the store
C2_Witness ==
  /\ last.op = "add"
  /\ \E d \in deleted : d \notin Ids(tasks[last.p]) /\ d < last.id

\* C3: add assigns (maximum id in the store) + 1, or 1 on an empty store,
\* and appends the task at the end; two adds in a row by one store assign
\* increasing ids.
C3_AddMaxPlusOne ==
  [][\A p \in Procs :
       (last'.op = "add" /\ last'.p = p) =>
         /\ IF tasks[p] = <<>>
              THEN last'.id = 1
              ELSE \E m \in Ids(tasks[p]) :
                     /\ \A x \in Ids(tasks[p]) : x <= m
                     /\ last'.id = m + 1
         /\ Len(tasks'[p]) = Len(tasks[p]) + 1
         /\ SubSeq(tasks'[p], 1, Len(tasks[p])) = tasks[p]
         /\ tasks'[p][Len(tasks'[p])]["id"] = last'.id
         /\ tasks'[p][Len(tasks'[p])]["completed"] = FALSE
         /\ (last.op = "add" /\ last.p = p) => last'.id > last.id]_vars

\* three adds with no delete: the third one got id 3 at the end
C3_Witness ==
  /\ last.op = "add"
  /\ last.id = 3
  /\ ~last.flag
  /\ deleted = {}
  /\ Len(tasks[last.p]) = 3
  /\ tasks[last.p][3]["id"] = 3

\* C4: when the task with the maximum id was just deleted and add comes
\* next, the new id is (maximum of the remaining ids) + 1, or 1 when none
\* remains, never above the deleted id; with ids {1,2,3}, delete(3) then add
\* gives 3 again.
C4_AddAfterDeleteMax ==
  [][\A p \in Procs :
       ( /\ last.op = "delete" /\ last.p = p /\ last.flag
         /\ pc[p] = "ready"
         /\ \A x \in Ids(tasks[p]) : x < last.id
         /\ last'.op = "add" /\ last'.p = p ) =>
         /\ last'.id <= last.id
         /\ \A x \in Ids(tasks[p]) : x < last'.id
         /\ (last'.id - 1) \in Ids(tasks[p]) \cup {0}
         /\ (Ids(tasks[p]) = {1, 2} /\ last.id = 3) => last'.id = 3]_vars

\* id 3 was deleted from {1,2,3} and an add returned 3 again
C4_Witness ==
  /\ last.op = "add"
  /\ last.id = 3
  /\ last.flag
  /\ Ids(tasks[last.p]) = {1, 2, 3}

\* C5: with one store object at a time, a store that could read the file
\* (or has saved since) holds exactly what a new store would load from the
\* file, in order and field by field; after its own save the file exists,
\* parses, and decodes to the in-memory sequence.
C5_RoundTrip ==
  \A p \in Procs :
    (pc[p] = "ready" /\ (load_status[p] # "io_error" \/ lastSaver = p)) =>
      /\ LoadTasks(tasks_file, "ok").tasks = tasks[p]
      /\ lastSaver = p =>
           /\ tasks_file.exists
           /\ JsonValid(tasks_file.text)
           /\ JsonLoad(tasks_file.text) = tasks[p]

\* a new store was constructed after adds, a complete and a delete, and it
\* loaded a sequence with a completed and an open task
C5_Witness ==
  /\ last.op = "init"
  /\ load_status[last.p] = "ok"
  /\ deleted # {}
  /\ Len(tasks[last.p]) >= 2
  /\ \E i, j \in DOMAIN tasks[last.p] :
       tasks[last.p][i]["completed"] /\ ~tasks[last.p][j]["completed"]

\* C7: delete(id) with an id no task has (zero and negative ids included)
\* leaves the in-memory sequence as it was, does not touch the backing file,
\* keeps the process running and prints the not-found message.
C7_DeleteAbsent ==
  [][\A p \in Procs :
       (last'.op = "delete" /\ last'.p = p /\ last'.id \notin Ids(tasks[p])) =>
         /\ tasks'[p] = tasks[p]
         /\ tasks_file' = tasks_file
         /\ stdout'[p] = <<Line("not_found", "", last'.id, "")>>
         /\ stderr'[p] = <<>>
         /\ pc'[p] = "ready"]_vars

\* delete(0) or delete(-1) was reported not found on a store that holds tasks
C7_Witness ==
  /\ last.op = "delete"
  /\ last.id <= 0
  /\ tasks[last.p] # <<>>
  /\ stdout[last.p] = <<Line("not_found", "", last.id, "")>>

\* C8: complete(id) with an id no task has leaves the in-memory sequence as
\* it was, does not touch the backing file, and prints the not-found message
\* while the process keeps running.
C8_CompleteAbsent ==
  [][\A p \in Procs :
       (last'.op = "complete" /\ last'.p = p /\ last'.id \notin Ids(tasks[p])) =>
         /\ tasks'[p] = tasks[p]
         /\ tasks_file' = tasks_file
         /\ stdout'[p] = <<Line("not_found", "", last'.id, "")>>
         /\ stderr'[p] = <<>>
         /\ pc'[p] = "ready"
         /\ exit_status'[p] = -1]_vars

\* complete of an absent positive id was reported not found on a store that
\* holds an open task
C8_Witness ==
  /\ last.op = "complete"
  /\ last.id > 0
  /\ \E i \in DOMAIN tasks[last.p] : ~tasks[last.p][i]["completed"]
  /\ stdout[last.p] = <<Line("not_found", "", last.id, "")>>

\* C9: complete(id) called again right after a successful complete(id), with
\* the save working, reports success again and leaves the in-memory sequence
\* and the backing file exactly as the first call left them.
C9_CompleteIdempotent ==
  [][\A p \in Procs :
       ( /\ last.op = "complete" /\ last.p = p /\ last.flag /\ last.io = "ok"
         /\ pc[p] = "ready"
         /\ last'.op = "complete" /\ last'.p = p /\ last'.id = last.id
         /\ last'.io \in {"ok", "none"} ) =>
         /\ last'.flag
         /\ tasks'[p] = tasks[p]
         /\ tasks_file' = tasks_file
         /\ stdout'[p] = <<Line("completed", "", last.id, "")>>
         /\ stdout'[p] = stdout[p]
         /\ pc'[p] = "ready"]_vars

\* a complete succeeded on a task of a store with several tasks, and the
\* file holds the result
C9_Witness ==
  /\ last.op = "complete"
  /\ last.flag
  /\ last.io = "ok"
  /\ Len(tasks[last.p]) >= 2
  /\ \E i \in DOMAIN tasks[last.p] :
       tasks[last.p][i]["id"] = last.id /\ tasks[last.p][i]["completed"]
  /\ tasks_file = FileOf(JsonDump(tasks[last.p]))

\* the task lines of a listing
ShownLines(out) == SelectSeq(out, LAMBDA l : l.kind = "task")

\* C10: list shows, in sequence order, every task when show_completed is
\* true, and exactly the tasks whose completed flag is not true when it is
\* false (a task without the flag counts as not completed); a completed task
\* is never shown when show_completed is false.
C10_ListSelects ==
  \A p \in Procs :
    (pc[p] = "ready" /\ last.op = "list" /\ last.p = p) =>
      LET shown == ShownLines(stdout[p])
          wanted == IF last.flag
                      THEN tasks[p]
                      ELSE SelectSeq(tasks[p],
                             LAMBDA t : ~("completed" \in DOMAIN t
                                            /\ t["completed"] = TRUE))
      IN  /\ Len(shown) = Len(wanted)
          /\ \A i \in DOMAIN wanted :
               /\ shown[i].id = wanted[i]["id"]
               /\ shown[i].text = wanted[i]["title"]
          /\ ~last.flag => \A i \in DOMAIN shown : shown[i].mark = "open"

\* a listing without --all of a store that holds a completed task, a task
\* without the flag, and an open task added later
C10_Witness ==
  /\ last.op = "list"
  /\ ~last.flag
  /\ \E i, j, k \in DOMAIN tasks[last.p] :
       /\ "completed" \notin DOMAIN tasks[last.p][i]
       /\ "completed" \in DOMAIN tasks[last.p][j]
       /\ tasks[last.p][j]["completed"]
       /\ "completed" \in DOMAIN tasks[last.p][k]
       /\ ~tasks[last.p][k]["completed"]
  /\ Len(ShownLines(stdout[last.p])) = 2

\* C6: with several processes on one file, the file holds what the process
\* that saved last has in memory; a task that only another process has in
\* memory is not in the file.
C6_LastSaverWins ==
  \A q \in Procs :
    (lastSaver = q /\ exit_status[q] # 1) =>
      /\ tasks_file = FileOf(JsonDump(tasks[q]))
      /\ LET in_file == LoadTasks(tasks_file, "ok").tasks
         IN  \A p \in Procs \ {q} : \A i \in DOMAIN tasks[p] :
               (\A j \in DOMAIN tasks[q] : tasks[q][j] # tasks[p][i]) =>
                 \A k \in DOMAIN in_file : in_file[k] # tasks[p][i]

\* both processes loaded before either saved, store 1 saved, then store 2
\* saved an add: the file is store 2's sequence and lacks a task of store 1
C6_Witness ==
  /\ lastSaver = 2
  /\ last.op = "add" /\ last.p = 2 /\ last.io = "ok"
  /\ pc[1] = "ready" /\ pc[2] = "ready"
  /\ stale[1] /\ stale[2]
  /\ LoadTasks(tasks_file, "ok").tasks = tasks[2]
  /\ \E i \in DOMAIN tasks[1] :
       \A k \in DOMAIN tasks[2] : tasks[2][k] # tasks[1][i]

\* C11: list never changes state: for either value of show_completed the
\* in-memory sequence and the backing file are the same after list as
\* before; list neither creates nor rewrites the file.
C11_ListIsPure ==
  [][\A p \in Procs :
       (last'.op = "list" /\ last'.p = p) =>
         /\ tasks' = tasks
         /\ tasks_file' = tasks_file
         /\ pc' = pc
         /\ exit_status' = exit_status]_vars

\* list --all ran on a store that found no file, and there is still no file
C11_Witness ==
  /\ last.op = "list"
  /\ last.flag
  /\ load_status[last.p] = "missing"
  /\ ~tasks_file.exists
  /\ stdout[last.p] = <<Line("no_tasks", "", 0, "")>>

\* the file cannot be read as a JSON array by a load that reads with rd
Unloadable(f, rd) ==
  f.exists /\ (rd = "io_error" \/ ~Decodable(f.text) \/ ~JsonValid(f.text))

\* C12: constructing a store on a file that exists but cannot be parsed as
\* JSON (or cannot be read) gives an empty sequence and a diagnostic on the
\* error stream, and construction completes normally; on a path with no
\* file it gives an empty sequence and no diagnostic.
C12_LoadFailureRecovered ==
  \A p \in Procs :
    (last.op = "init" /\ last.p = p) =>
      /\ Unloadable(tasks_file, last.io) =>
           /\ tasks[p] = <<>>
           /\ stderr[p] # <<>>
           /\ pc[p] = "ready"
           /\ exit_status[p] = -1
      /\ ~tasks_file.exists =>
           /\ tasks[p] = <<>>
           /\ stderr[p] = <<>>
           /\ pc[p] = "ready"

SaveFailed(io) == io \in {"open_fail", "write_fail"}

\* C13: a failed write of the file during add, complete or delete ends the
\* process with a non-zero status after a diagnostic, without the success
\* message; every other outcome (success, not-found, load failure, empty
\* listing) ends with status 0.
C13_ExitStatus ==
  \A p \in Procs :
    /\ (last.p = p /\ SaveFailed(last.io)) =>
         /\ pc[p] = "exited"
         /\ exit_status[p] = 1
         /\ stderr[p] = <<Line("save_error", "", 0, last.io)>>
         /\ stdout[p] = <<>>
    /\ pc[p] = "exited" =>
         /\ exit_status[p] \in {0, 1}
         /\ exit_status[p] = 1 =>
              \E io \in IoOutcomes :
                SaveFailed(io) /\ stderr[p] = <<Line("save_error", "", 0, io)>>

\* the task u is the task t, except that its flag may have gone from not
\* completed to completed
Preserved(t, u) ==
  /\ (DOMAIN u) \ {"completed"} = (DOMAIN t) \ {"completed"}
  /\ \A k \in (DOMAIN t) \ {"completed"} : u[k] = t[k]
  /\ Get(t, "completed", FALSE) => Get(u, "completed", FALSE)

\* C14: no call changes the id, title, description or created_at of a task
\* in the store, and a completed task stays completed while it is in the
\* store; complete(id) changes only the flag of the first task with that id
\* and nothing else; delete leaves the tasks it keeps as they were.
C14_TasksImmutable ==
  [][\A p \in Procs :
       /\ (last'.p = p /\ last'.op \in {"add", "list", "complete", "exit"}) =>
            /\ Len(tasks'[p]) >= Len(tasks[p])
            /\ \A i \in DOMAIN tasks[p] : Preserved(tasks[p][i], tasks'[p][i])
       /\ (last'.p = p /\ last'.op = "complete") =>
            /\ Len(tasks'[p]) = Len(tasks[p])
            /\ \A i \in DOMAIN tasks[p] :
                 \/ tasks'[p][i] = tasks[p][i]
                 \/ /\ tasks[p][i]["id"] = last'.id
                    /\ \A j \in 1..(i - 1) : tasks[p][j]["id"] # last'.id
                    /\ tasks'[p][i]["completed"]
       /\ (last'.p = p /\ last'.op = "delete") =>
            \A j \in DOMAIN tasks'[p] :
              \E i \in DOMAIN tasks[p] : tasks[p][i] = tasks'[p][j]]_vars

\* complete(id) succeeded on a loaded store with two tasks of that id: the
\* first one is completed, the second one still is not
C14_Witness ==
  /\ last.op = "complete"
  /\ last.flag
  /\ \E i, j \in DOMAIN tasks[last.p] :
       /\ i < j
       /\ tasks[last.p][i]["id"] = last.id
       /\ tasks[last.p][j]["id"] = last.id
       /\ Get(tasks[last.p][i], "completed", FALSE)
       /\ ~Get(tasks[last.p][j], "completed", FALSE)

\* C15: after delete(id) on any loaded sequence, even one that repeats the
\* id, no task with that id remains and every other task is still there,
\* unchanged and in the same relative order; when the ids are distinct and
\* the id is present, the length drops by exactly one and the result is
\* written to the file.
C15_DeleteRemovesAll ==
  [][\A p \in Procs :
       (last'.op = "delete" /\ last'.p = p) =>
         LET keep == {i \in DOMAIN tasks[p] : tasks[p][i]["id"] # last'.id}
             Pos(i) == Cardinality({j \in keep : j <= i})
         IN  /\ last'.id \notin Ids(tasks'[p])
             /\ Len(tasks'[p]) = Cardinality(keep)
             /\ \A i \in keep : tasks'[p][Pos(i)] = tasks[p][i]
             /\ (DistinctIds(tasks[p]) /\ last'.id \in Ids(tasks[p])) =>
                  /\ Len(tasks'[p]) = Len(tasks[p]) - 1
                  /\ last'.flag
                  /\ last'.io = "ok" =>
                       /\ tasks_file' = FileOf(JsonDump(tasks'[p]))
                       /\ stdout'[p] = <<Line("deleted", "", last'.id, "")>>]_vars

\* a delete succeeded and was saved on a store loaded from a file, and a
\* task read from the file is still in the store
C15_Witness ==
  /\ last.op = "delete"
  /\ last.flag
  /\ last.io = "ok"
  /\ load_status[last.p] = "ok"
  /\ \E i \in DOMAIN tasks[last.p] : tasks[last.p][i]["title"] = "b"
  /\ tasks_file = FileOf(JsonDump(tasks[last.p]))

\* C16: list prints exactly one of three things: the empty-store message
\* alone when the sequence is empty (for either flag value); the
\* no-incomplete-tasks message alone when the sequence is not empty,
\* show_completed is false and every task is completed; otherwise the
\* listing.  The no-incomplete-tasks message never appears with
\* show_completed true.
C16_ListOutcomes ==
  \A p \in Procs :
    (pc[p] = "ready" /\ last.op = "list" /\ last.p = p) =>
      LET out == stdout[p]
          ts == tasks[p]
          all_done == \A i \in DOMAIN ts :
                        "completed" \in DOMAIN ts[i] /\ ts[i]["completed"]
      IN  /\ ts = <<>> => out = <<Line("no_tasks", "", 0, "")>>
          /\ (ts # <<>> /\ ~last.flag /\ all_done) =>
               out = <<Line("no_incomplete", "", 0, "")>>
          /\ (ts # <<>> /\ (last.flag \/ ~all_done)) =>
               /\ Len(out) >= 4
               /\ out[1].kind = "header"
               /\ out[2].kind = "rule"
               /\ out[Len(out)].kind = "rule"
               /\ \A i \in 3..(Len(out) - 1) : out[i].kind \in {"task", "desc"}
               /\ out[3].kind = "task"
          /\ last.flag => \A i \in DOMAIN out : out[i].kind # "no_incomplete"

\* list without --all on a store whose tasks are all completed
C16_Witness ==
  /\ last.op = "list"
  /\ ~last.flag
  /\ Len(tasks[last.p]) >= 2
  /\ stdout[last.p] = <<Line("no_incomplete", "", 0, "")>>

\* C17: from an empty store, the in-memory sequence is always strictly
\* ascending by id, so the maximum id is at the end and add appends the new
\* maximum.
C17_AscendingIds ==
  \A p \in Procs :
    /\ \A i, j \in DOMAIN tasks[p] : i < j => tasks[p][i]["id"] < tasks[p][j]["id"]
    /\ (last.op = "add" /\ last.p = p) =>
         /\ tasks[p][Len(tasks[p])]["id"] = last.id
         /\ \A i \in DOMAIN tasks[p] : tasks[p][i]["id"] <= last.id

\* an add returned a deleted id again, as the last of several tasks
C17_Witness ==
  /\ last.op = "add"
  /\ last.flag
  /\ Len(tasks[last.p]) >= 2
  /\ deleted # {}
  /\ tasks[last.p][Len(tasks[last.p])]["id"] = last.id

\* C18: with several processes interleaving loads and saves on one file
\* (two adds may compute the same next id), the file after every completed
\* save parses and holds pairwise distinct ids, each save writing one
\* process's whole sequence.
C18_FileIdsDistinct ==
  /\ tasks_file.exists =>
       /\ Decodable(tasks_file.text)
       /\ JsonValid(tasks_file.text)
       /\ DistinctIds(JsonLoad(tasks_file.text))
  /\ \A p \in Procs : DistinctIds(tasks[p])

\* both processes loaded before either saved and each added a task of its
\* own under the same id; the file has been written by the later one
C18_Witness ==
  /\ last.op = "add"
  /\ last.io = "ok"
  /\ stale[1] /\ stale[2]
  /\ tasks_file.exists
  /\ \E i \in DOMAIN tasks[1], j \in DOMAIN tasks[2] :
       /\ tasks[1][i]["id"] = tasks[2][j]["id"]
       /\ tasks[1][i]["title"] # tasks[2][j]["title"]

\* the store p found an unparseable file, holds nothing, and the file is
\* still unparseable
AfterParseFailure(p) ==
  /\ pc[p] = "ready"
  /\ load_status[p] = "parse_error"
  /\ tasks[p] = <<>>
  /\ tasks_file.exists
  /\ ~JsonValid(tasks_file.text)

\* C19: after a load failure on an unparseable file, list, complete and
\* delete leave the file untouched (complete and delete report not-found on
\* the empty store), and the first successful add overwrites it: the file
\* then holds exactly one task, with id 1, and the old text is gone.
C19_AddOverwritesCorruptFile ==
  [][\A p \in Procs :
       (AfterParseFailure(p) /\ last'.p = p) =>
         /\ last'.op \in {"list", "complete", "delete", "exit"} =>
              /\ tasks_file' = tasks_file
              /\ tasks'[p] = <<>>
         /\ last'.op \in {"complete", "delete"} =>
              stdout'[p] = <<Line("not_found", "", last'.id, "")>>
         /\ (last'.op = "add" /\ last'.io = "ok") =>
              /\ last'.id = 1
              /\ tasks_file'.text # tasks_file.text
              /\ JsonValid(tasks_file'.text)
              /\ Len(JsonLoad(tasks_file'.text)) = 1
              /\ JsonLoad(tasks_file'.text)[1]["id"] = 1
              /\ JsonLoad(tasks_file'.text) = tasks'[p]]_vars

\* the first add after a failed parse was saved: the file is now the dump
\* of the one new task
C19_Witness ==
  /\ last.op = "add"
  /\ last.io = "ok"
  /\ last.id = 1
  /\ load_status[last.p] = "parse_error"
  /\ Len(tasks[last.p]) = 1
  /\ tasks_file = FileOf(JsonDump(tasks[last.p]))

====
